---------------------------- MODULE Spec2Model ----------------------------
(***************************************************************************)
(* A model of app3.py, the Citrix data dashboard: the identifier           *)
(* normalisation and the contact / firmographic joins of the load          *)
(* functions, the name-column resolution and the section flow of the       *)
(* account deep dive, the engagement / affinity classification of a        *)
(* contact, the date filter of the bulk export, and the memoisation of     *)
(* the load functions by st.cache_data.                                    *)
(*                                                                         *)
(* Python strings are sequences of one-character strings, so that strip,   *)
(* upper, lower, replace and split are computed character by character.    *)
(***************************************************************************)
EXTENDS Integers, Sequences, FiniteSets, TLC

VARIABLES
    \* identifier normalisation (load_account_contacts, lines 92-95)
    id, clean_id, clean_again,
    \* the joins (load_account_firmographics, load_account_contacts)
    cust_ids, party_numbers, firm_ids, contacts, firmographics,
    \* the account deep dive (tab_dashboard)
    columns, f_col, l_col, pc, rendered, errors,
    \* the classification of one contact (tab_dashboard, lines 189-232)
    names_resolved, activity, engaged_names, party_unique_name,
    sales_affinity_code, is_engaged, status_color,
    \* the bulk export (tab_export)
    bulk_activity_df, date_col_found, date_range, parsed_dates,
    filtered_activity,
    \* st.cache_data and the data store
    store_up, cache, last_call, shown,
    \* the account selection of the deep dive (tab_dashboard, lines 157-172)
    account_summary, account_choice, selected_account, queried_account

normVars == <<id, clean_id, clean_again>>
joinVars == <<cust_ids, party_numbers, firm_ids, contacts, firmographics>>
viewVars == <<columns, f_col, l_col, pc, rendered, errors>>
classVars == <<names_resolved, activity, engaged_names, party_unique_name,
               sales_affinity_code, is_engaged, status_color>>
exportVars == <<bulk_activity_df, date_col_found, date_range, parsed_dates,
                filtered_activity>>
cacheVars == <<store_up, cache, last_call, shown>>
selectVars == <<account_summary, account_choice, selected_account,
                queried_account>>
vars == <<normVars, joinVars, viewVars, classVars, exportVars, cacheVars,
          selectVars>>

---------------------------------------------------------------------------
(* Python values *)

\* None / NaN / NaT: a value no string of one-character strings equals.
None == <<"None">>

Uppers == <<"A","B","C","D","E","F","G","H","I","J","K","L","M",
            "N","O","P","Q","R","S","T","U","V","W","X","Y","Z">>
Lowers == <<"a","b","c","d","e","f","g","h","i","j","k","l","m",
            "n","o","p","q","r","s","t","u","v","w","x","y","z">>

LowerChar(c) ==
    IF \E i \in DOMAIN Uppers : Uppers[i] = c
    THEN Lowers[CHOOSE i \in DOMAIN Uppers : Uppers[i] = c]
    ELSE c

UpperChar(c) ==
    IF \E i \in DOMAIN Lowers : Lowers[i] = c
    THEN Uppers[CHOOSE i \in DOMAIN Lowers : Lowers[i] = c]
    ELSE c

\* str.lower() and str.upper()
Lower(s) == [i \in 1..Len(s) |-> LowerChar(s[i])]
Upper(s) == [i \in 1..Len(s) |-> UpperChar(s[i])]

IsSpace(c) == c = " "

\* str.strip(): leading and trailing whitespace removed
Strip(s) ==
    LET solid == {i \in 1..Len(s) : ~IsSpace(s[i])}
    IN  IF solid = {} THEN <<>>
        ELSE LET lo == CHOOSE i \in solid : \A j \in solid : i <= j
                 hi == CHOOSE i \in solid : \A j \in solid : j <= i
             IN  SubSeq(s, lo, hi)

\* str.replace(old, ""): every non-overlapping occurrence of old, scanning
\* from the left, is removed, wherever it stands in s.
RECURSIVE Remove(_, _)
Remove(s, old) ==
    IF Len(s) < Len(old) THEN s
    ELSE IF SubSeq(s, 1, Len(old)) = old
         THEN Remove(SubSeq(s, Len(old) + 1, Len(s)), old)
         ELSE <<Head(s)>> \o Remove(Tail(s), old)

\* str.split(): the maximal runs of non-whitespace characters, in order
RECURSIVE Split(_)
Split(s) ==
    IF s = <<>> THEN <<>>
    ELSE IF IsSpace(Head(s)) THEN Split(Tail(s))
    ELSE LET rest == Split(Tail(s))
         IN  IF Len(s) > 1 /\ ~IsSpace(s[2])
             THEN <<(<<Head(s)>> \o Head(rest))>> \o Tail(rest)
             ELSE <<(<<Head(s)>>)>> \o rest

H_CIT == <<"H","-","C","I","T","-">>
H_ == <<"H","-">>
CIT_ == <<"C","I","T","-">>

\* line 94: str(id).strip().upper().replace("H-CIT-", "").replace("H-", "")
\*          .replace("CIT-", "")
Normalize(x) ==
    Remove(Remove(Remove(Upper(Strip(x)), H_CIT), H_), CIT_)

---------------------------------------------------------------------------
(* The parts of the state a specification leaves alone *)

\* A set-valued variable that holds no value yet (dropna and the SQL IN
\* keep a null out of every real value).
Unset == {None}

\* filtered_activity before line 345
NotFiltered == {[kind |-> "unset", day |-> 0, minute |-> 0, offset |-> 0]}

NoCall == [fn |-> "none"]

NormIdle ==
    /\ id = None /\ clean_id = None /\ clean_again = None

JoinIdle ==
    /\ cust_ids = Unset /\ party_numbers = {} /\ firm_ids = {}
    /\ contacts = Unset /\ firmographics = Unset

ViewIdle ==
    /\ columns = <<>> /\ f_col = None /\ l_col = None
    /\ pc = "idle" /\ rendered = {} /\ errors = {}

ClassIdle ==
    /\ names_resolved = FALSE /\ activity = {} /\ engaged_names = Unset
    /\ party_unique_name = None /\ sales_affinity_code = None
    /\ is_engaged = FALSE /\ status_color = "none"

ExportIdle ==
    /\ bulk_activity_df = [columns |-> {}, rows |-> {}]
    /\ date_col_found = "unset" /\ date_range = <<>>
    /\ parsed_dates = <<>> /\ filtered_activity = NotFiltered

CacheIdle ==
    /\ store_up = TRUE /\ cache = <<>> /\ last_call = NoCall /\ shown = {}

SelectIdle ==
    /\ account_summary = {} /\ account_choice = None
    /\ selected_account = None /\ queried_account = None

---------------------------------------------------------------------------
(* Identifier normalisation on its own *)

MaxIdTokens == 3

IdTokens == { H_, CIT_, <<"h","-">>, <<" ">>, <<"A">>, <<"H">>, <<"-">>,
              <<"1">> }

RECURSIVE Concats(_, _)
Concats(tokens, n) ==
    IF n = 0 THEN {<<>>}
    ELSE LET prev == Concats(tokens, n - 1)
         IN  prev \cup {p \o t : p \in prev, t \in tokens}

Identifiers == Concats(IdTokens, MaxIdTokens)

NormInit ==
    /\ id \in Identifiers
    /\ clean_id = None
    /\ clean_again = None
    /\ JoinIdle /\ ViewIdle /\ ClassIdle /\ ExportIdle /\ CacheIdle /\ SelectIdle

\* lines 93-95: one identifier of customer_ids is normalised
NormalizeId ==
    /\ clean_id = None
    /\ clean_id' = Normalize(id)
    /\ UNCHANGED <<id, clean_again>>
    /\ UNCHANGED <<selectVars, joinVars, viewVars, classVars, exportVars, cacheVars>>

\* the normalised identifier is handed to the normalisation again (it is a
\* customer identifier of a later call)
NormalizeAgain ==
    /\ clean_id # None
    /\ clean_again = None
    /\ clean_again' = Normalize(clean_id)
    /\ UNCHANGED <<id, clean_id>>
    /\ UNCHANGED <<selectVars, joinVars, viewVars, classVars, exportVars, cacheVars>>

---------------------------------------------------------------------------
(* The joins: customer identifiers of the activity rows against the        *)
(* firmographic table and the contact table                                *)

MaxCustIds == 2
MaxStoreRows == 2

A1 == <<"A","1">>

\* raw identifiers as the three tables hold them
JoinIds == { A1, H_CIT \o A1, Lower(H_CIT \o A1), <<" ">> \o A1 \o <<" ">>,
             H_ \o A1, <<"B","'","2">> }

RECURSIVE SubsetsUpTo(_, _)
SubsetsUpTo(S, n) ==
    IF n = 0 THEN {{}}
    ELSE LET prev == SubsetsUpTo(S, n - 1)
         IN  prev \cup {p \cup {x} : p \in prev, x \in S}

\* lines 75, 97: str.replace("'", "''") on a value put between quotes
RECURSIVE SqlEscape(_)
SqlEscape(s) ==
    IF s = <<>> THEN <<>>
    ELSE IF Head(s) = "'" THEN <<"'", "'">> \o SqlEscape(Tail(s))
    ELSE <<Head(s)>> \o SqlEscape(Tail(s))

\* the data store reading the body of a quoted literal: '' is one quote
RECURSIVE SqlLiteralValue(_)
SqlLiteralValue(s) ==
    IF s = <<>> THEN <<>>
    ELSE IF Head(s) = "'" /\ Len(s) > 1 /\ s[2] = "'"
         THEN <<"'">> \o SqlLiteralValue(SubSeq(s, 3, Len(s)))
    ELSE <<Head(s)>> \o SqlLiteralValue(Tail(s))

\* line 209: account_data["CustomerId_NAR"].dropna().unique().tolist()
\* (line 357 for the bulk export), over every activity row of the account
DistinctNonNull(column) == {v \in column : v # None}

\* lines 76-79: WHERE "CustomerId_NAR" IN ('{ids_str}'), the raw identifiers
FirmographicsQuery(customer_ids) ==
    LET ids == {SqlLiteralValue(SqlEscape(i)) : i \in customer_ids}
    IN  {f \in firm_ids : f # None /\ f \in ids}

\* line 100: UPPER(REPLACE(REPLACE(REPLACE("party_number", 'H-CIT-', ''),
\*           'H-', ''), 'CIT-', '')), REPLACE matching case-sensitively
PartyNumberKey(k) ==
    Upper(Remove(Remove(Remove(k, H_CIT), H_), CIT_))

\* lines 92-101: the identifiers normalised, then the contact rows whose
\* party_number expression is one of them
ContactsQuery(customer_ids) ==
    LET normalized_ids == {Normalize(i) : i \in customer_ids}
        ids == {SqlLiteralValue(SqlEscape(i)) : i \in normalized_ids}
    IN  {k \in party_numbers : k # None /\ PartyNumberKey(k) \in ids}

\* lines 70-84: no identifiers, no query; a failing store is caught and
\* reported, and the result is the empty frame
load_account_firmographics(customer_ids, up) ==
    IF customer_ids = {} THEN [df |-> {}, error |-> FALSE]
    ELSE IF ~up THEN [df |-> {}, error |-> TRUE]
    ELSE [df |-> FirmographicsQuery(customer_ids), error |-> FALSE]

\* lines 87-106
load_account_contacts(customer_ids, up) ==
    IF customer_ids = {} THEN [df |-> {}, error |-> FALSE]
    ELSE IF ~up THEN [df |-> {}, error |-> TRUE]
    ELSE [df |-> ContactsQuery(customer_ids), error |-> FALSE]

\* customer_id_nar: the CustomerId_NAR values of the account's activity
\* rows, null where a row has none
JoinInit ==
    /\ \E column \in SubsetsUpTo(JoinIds \cup {None}, MaxCustIds) :
           cust_ids = DistinctNonNull(column)
    /\ party_numbers \in SubsetsUpTo(JoinIds \cup {None}, MaxStoreRows)
    /\ firm_ids \in SubsetsUpTo(JoinIds \cup {None}, MaxStoreRows)
    /\ contacts = Unset
    /\ firmographics = Unset
    /\ store_up \in BOOLEAN
    /\ cache = <<>> /\ last_call = NoCall /\ shown = {}
    /\ NormIdle /\ ViewIdle /\ ClassIdle /\ ExportIdle /\ SelectIdle

\* lines 210-211: firmographics are loaded when there are identifiers
LoadFirmographics ==
    /\ firmographics = Unset
    /\ cust_ids # {}
    /\ LET r == load_account_firmographics(cust_ids, store_up)
       IN  /\ firmographics' = r.df
           /\ shown' = IF r.error THEN shown \cup {"Error loading firmographics"}
                       ELSE shown
    /\ UNCHANGED <<cust_ids, party_numbers, firm_ids, contacts>>
    /\ UNCHANGED <<selectVars, normVars, viewVars, classVars, exportVars, store_up, cache,
                   last_call>>

\* lines 221-222 (when there are identifiers) and line 358 (always)
LoadContacts ==
    /\ contacts = Unset
    /\ LET r == load_account_contacts(cust_ids, store_up)
       IN  /\ contacts' = r.df
           /\ shown' = IF r.error THEN shown \cup {"Error loading contacts"}
                       ELSE shown
    /\ UNCHANGED <<cust_ids, party_numbers, firm_ids, firmographics>>
    /\ UNCHANGED <<selectVars, normVars, viewVars, classVars, exportVars, store_up, cache,
                   last_call>>

---------------------------------------------------------------------------
(* The account deep dive: name-column resolution and the sections          *)

MaxCols == 3

\* lines 183-184
possible_first == <<
    <<"F","i","r","s","t"," ","N","a","m","e">>,
    <<"f","i","r","s","t"," ","n","a","m","e">>,
    <<"f","i","r","s","t","n","a","m","e">>,
    <<"f","i","r","s","t">> >>
possible_last == <<
    <<"L","a","s","t"," ","N","a","m","e">>,
    <<"l","a","s","t"," ","n","a","m","e">>,
    <<"l","a","s","t","n","a","m","e">>,
    <<"l","a","s","t">> >>

\* "CustomerId_NAR", the column line 209 reads
CustomerId_NAR == <<"C","u","s","t","o","m","e","r","I","d","_","N","A","R">>

\* Columns combined_datastore may have beside the two every reachable view
\* has: "First Name", which the account list's query names (line 39: without
\* it no account can be selected), and "CustomerId_NAR".
OtherColumns == {
    <<"F","I","R","S","T"," ","N","A","M","E">>,
    <<"f","i","r","s","t","n","a","m","e">>,
    <<"F","i","r","s","t">>,
    <<"L","a","s","t"," ","N","a","m","e">>,
    <<" ","l","a","s","t"," ","n","a","m","e"," ">>,
    <<"L","A","S","T","N","A","M","E">>,
    <<"L","a","s","t">>,
    <<"l","a","s","t","_","n","a","m","e">>,
    <<"D","a","t","e">> }

RECURSIVE DistinctSeqs(_, _)
DistinctSeqs(S, n) ==
    IF n = 0 THEN {<<>>}
    ELSE LET prev == DistinctSeqs(S, n - 1)
         IN  prev \cup {Append(q, x) : q \in prev, x \in S}

Elems(q) == {q[i] : i \in DOMAIN q}

\* the column lists a SELECT * of the activity table can give
ActivityColumns ==
    {<<CustomerId_NAR>> \o q : q \in
        {r \in DistinctSeqs(OtherColumns \cup {possible_first[1]}, MaxCols) :
            /\ Cardinality(Elems(r)) = Len(r)
            /\ possible_first[1] \in Elems(r)}}

\* line 175: account_data.columns.str.strip()
StripColumns(cols) == [i \in DOMAIN cols |-> Strip(cols[i])]

\* line 185: {c.lower(): c for c in account_data.columns}; of two columns
\* with the same lower-cased name the later one is kept
cols_lower(cols) ==
    LET keys == {Lower(cols[i]) : i \in DOMAIN cols}
    IN  [k \in keys |->
            cols[CHOOSE i \in DOMAIN cols :
                    /\ Lower(cols[i]) = k
                    /\ \A j \in DOMAIN cols : Lower(cols[j]) = k => j <= i]]

\* ResolveColumn looking the candidates up among the columns as they are
ResolveColumnCaseSensitive(cols, possible) ==
    LET hits == {i \in DOMAIN possible : possible[i] \in Elems(cols)}
    IN  IF hits = {} THEN None
        ELSE possible[CHOOSE i \in hits : \A j \in hits : i <= j]

\* lines 186-187: next((cols_lower[c] for c in possible if c in cols_lower),
\* None); the candidate is looked up as it is written
ResolveColumn(cols, possible) ==
    LET d == cols_lower(cols)
        hits == {i \in DOMAIN possible : possible[i] \in DOMAIN d}
    IN  IF hits = {} THEN None
        ELSE d[possible[CHOOSE i \in hits : \A j \in hits : i <= j]]

\* line 193: rename(columns={f_col: "First Name", l_col: "Last Name"})
RenameColumns(cols, f, l) ==
    [i \in DOMAIN cols |->
        IF cols[i] = f THEN possible_first[1]
        ELSE IF cols[i] = l THEN possible_last[1]
        ELSE cols[i]]

\* load_account_data has returned a non-empty frame (line 174)
ViewInit ==
    /\ columns \in ActivityColumns
    /\ f_col = None
    /\ l_col = None
    /\ pc = "loaded"
    /\ rendered = {}
    /\ errors = {}
    /\ NormIdle /\ JoinIdle /\ ClassIdle /\ ExportIdle /\ CacheIdle /\ SelectIdle

\* lines 175-187: the columns are stripped, the timeline header is written
\* and the two name columns are looked for
ResolveNames ==
    /\ pc = "loaded"
    /\ columns' = StripColumns(columns)
    /\ f_col' = ResolveColumn(columns', possible_first)
    /\ l_col' = ResolveColumn(columns', possible_last)
    /\ rendered' = rendered \cup {"Engagement Timeline"}
    /\ pc' = "timeline"
    /\ UNCHANGED errors
    /\ UNCHANGED <<selectVars, normVars, joinVars, classVars, exportVars, cacheVars>>

\* lines 189-205: with both columns, they are renamed and the named rows
\* are charted (or "No named engagements." is shown); with a column
\* missing the block is skipped and nothing is reported
Timeline ==
    /\ pc = "timeline"
    /\ IF f_col # None /\ l_col # None
       THEN /\ columns' = RenameColumns(columns, f_col, l_col)
            /\ \E named_empty \in BOOLEAN :
                 rendered' = rendered \cup
                     {IF named_empty THEN "No named engagements."
                      ELSE "Timeline"}
       ELSE UNCHANGED <<columns, rendered>>
    /\ pc' = "firmographics"
    /\ UNCHANGED <<f_col, l_col, errors>>
    /\ UNCHANGED <<selectVars, normVars, joinVars, classVars, exportVars, cacheVars>>

\* lines 207-217: the firmographics section
Firmographics ==
    /\ pc = "firmographics"
    /\ \E found \in {"firmographics", "No firmographics data found.",
                     "No Customer IDs found."} :
         rendered' = rendered \cup {"Firmographics", found}
    /\ pc' = "contacts"
    /\ UNCHANGED <<columns, f_col, l_col, errors>>
    /\ UNCHANGED <<selectVars, normVars, joinVars, classVars, exportVars, cacheVars>>

\* lines 219-303: the contacts section
Contacts ==
    /\ pc = "contacts"
    /\ \E found \in {"contact tiles", "No contacts match filters.", "nothing"} :
         rendered' = rendered \cup {"Contacts", found}
    /\ pc' = "done"
    /\ UNCHANGED <<columns, f_col, l_col, errors>>
    /\ UNCHANGED <<selectVars, normVars, joinVars, classVars, exportVars, cacheVars>>

---------------------------------------------------------------------------
(* The classification of a contact: is_engaged and status_color            *)

MaxActivityRows == 2

\* "First Name" and "Last Name" values of the account's activity rows
FirstNames == { None, <<>>, <<"J","a","n","e">>, <<" ","j","a","n","e"," ">>, <<"S","a","m">> }
LastNames == { None, <<"D","o","e">>, <<"d","o","e"," ">> }

\* party_unique_name and sales_affinity_code values of a contact row
ContactNames == { None, <<>>, <<"J","a","n","e">>, <<"J","a","n","e"," ","D","o","e">>, <<"j","a","n","e"," "," ","d","o","e">>,
                  <<"J","A","N","E"," ","Q"," ","D","O","E">>, <<"D","o","e"," ","J","a","n","e">>, <<" ","S","a","m"," ","Q"," ","D","o","e"," ">> }
AffinityCodes == { None, <<>>, <<" ">>, <<"n","a","n">>, <<" ","n","a","n"," ">>, <<"h","i","g","h">> }

nan == <<"n","a","n">>

\* str(v): a null prints as the word None
PyStr(v) == IF v = None THEN <<"N","o","n","e">> ELSE v

\* fillna("")
FillNa(v) == IF v = None THEN <<>> ELSE v

\* line 194: the rows whose first name is not null and not ""
Named(rows) == {r \in rows : r.first # None /\ r.first # <<>>}

\* lines 189-197: empty without both name columns or without named rows,
\* else the (first, last) pairs of the named rows, stripped and lower-cased
EngagedNames(resolved, rows) ==
    IF resolved
    THEN {<<Lower(Strip(FillNa(r.first))), Lower(Strip(FillNa(r.last)))>> :
              r \in Named(rows)}
    ELSE {}

\* IsEngaged taking the second token for the last one
IsEngagedSecondToken(name, engaged) ==
    LET tokens == Split(PyStr(name))
    IN  IF Len(tokens) >= 2
        THEN <<Lower(tokens[1]), Lower(tokens[2])>> \in engaged
        ELSE FALSE

\* lines 225-228
IsEngaged(name, engaged) ==
    LET tokens == Split(PyStr(name))
    IN  IF Len(tokens) >= 2
        THEN <<Lower(tokens[1]), Lower(tokens[Len(tokens)])>> \in engaged
        ELSE FALSE

\* lines 230-232
StatusColor(affinity, engaged) ==
    IF affinity # None /\ Strip(PyStr(affinity)) # nan THEN "purple"
    ELSE IF engaged THEN "yellow"
    ELSE "red"

ClassInit ==
    /\ names_resolved \in BOOLEAN
    /\ activity \in SubsetsUpTo([first : FirstNames, last : LastNames],
                                MaxActivityRows)
    /\ engaged_names = Unset
    /\ party_unique_name \in ContactNames
    /\ sales_affinity_code \in AffinityCodes
    /\ is_engaged = FALSE
    /\ status_color = "none"
    /\ NormIdle /\ JoinIdle /\ ViewIdle /\ ExportIdle /\ CacheIdle /\ SelectIdle

\* lines 189-197
BuildEngagedNames ==
    /\ engaged_names = Unset
    /\ engaged_names' = EngagedNames(names_resolved, activity)
    /\ UNCHANGED <<names_resolved, activity, party_unique_name,
                   sales_affinity_code, is_engaged, status_color>>
    /\ UNCHANGED <<selectVars, normVars, joinVars, viewVars, exportVars, cacheVars>>

\* lines 225-232: both derived columns of the contact row
ClassifyContact ==
    /\ engaged_names # Unset
    /\ status_color = "none"
    /\ is_engaged' = IsEngaged(party_unique_name, engaged_names)
    /\ status_color' = StatusColor(sales_affinity_code, is_engaged')
    /\ UNCHANGED <<names_resolved, activity, engaged_names,
                   party_unique_name, sales_affinity_code>>
    /\ UNCHANGED <<selectVars, normVars, joinVars, viewVars, exportVars, cacheVars>>

---------------------------------------------------------------------------
(* The bulk export: the date filter                                        *)

MaxExportRows == 2
MaxDay == 2

\* minutes in a day, for .dt.date (line 349)
MinutesPerDay == 1440

\* line 338: the date columns, in order of preference
DateColumns == << "Activity Date", "Activity_DateOnly", "Date" >>

ExportColumnSets == { {}, {"Date"}, {"Activity_DateOnly", "Date"},
                      {"Activity Date"} }

\* What the date column of a row holds: nothing, text that is no date, or
\* a date and time of day (in minutes) written with a UTC offset (minutes).
RawDates ==
    {[kind |-> "null", day |-> 0, minute |-> 0, offset |-> 0],
     [kind |-> "text", day |-> 0, minute |-> 0, offset |-> 0]}
    \cup [kind : {"ts"}, day : 0..MaxDay, minute : {0, MinutesPerDay - 1},
          offset : {0, -60}]

\* st.date_input: one date while the range is being picked, else two in order
DateRanges ==
    {<<d>> : d \in 0..MaxDay}
    \cup {p \in (0..MaxDay) \X (0..MaxDay) : p[1] <= p[2]}

\* lines 337-343: the first date column the frame has, if any
DateColFound(cols) ==
    LET hits == {i \in DOMAIN DateColumns : DateColumns[i] \in cols}
    IN  IF hits = {} THEN "none"
        ELSE DateColumns[CHOOSE i \in hits : \A j \in hits : i <= j]

\* line 342: pd.to_datetime(errors='coerce', utc=True): NaT for a null or
\* an unparsable value, else the instant in UTC (minutes since day 0)
ToDatetimeUtc(raw) ==
    IF raw.kind = "ts"
    THEN [nat |-> FALSE, utc |-> raw.day * MinutesPerDay + raw.minute - raw.offset]
    ELSE [nat |-> TRUE, utc |-> 0]

\* line 349: .dt.date, the calendar date of the UTC instant (NaT stays NaT)
DtDate(t) == [nat |-> t.nat, date |-> t.utc \div MinutesPerDay]

\* InRange with the end date left out
InRangeEndExclusive(d, start_d, end_d) ==
    /\ ~d.nat
    /\ d.date >= start_d
    /\ d.date < end_d

\* lines 353-355: (dates_only >= start_d) & (dates_only <= end_d); a
\* comparison with NaT is False
InRange(d, start_d, end_d) ==
    /\ ~d.nat
    /\ d.date >= start_d
    /\ d.date <= end_d

\* lines 345-355
FilterActivity(df, col, range, converted) ==
    IF col # "none" /\ Len(range) = 2
    THEN {r \in df : InRange(DtDate(converted[r]), range[1], range[2])}
    ELSE df

\* load_bulk_account_data has returned a non-empty frame (line 334)
ExportInit ==
    /\ bulk_activity_df \in
          {[columns |-> c, rows |-> r] :
              c \in ExportColumnSets,
              r \in SubsetsUpTo(RawDates, MaxExportRows) \ {{}}}
    /\ date_col_found = "unset"
    /\ date_range \in DateRanges
    /\ parsed_dates = <<>>
    /\ filtered_activity = NotFiltered
    /\ NormIdle /\ JoinIdle /\ ViewIdle /\ ClassIdle /\ CacheIdle /\ SelectIdle

\* lines 336-343: the date column is found and converted
FindDateColumn ==
    /\ date_col_found = "unset"
    /\ date_col_found' = DateColFound(bulk_activity_df.columns)
    /\ parsed_dates' = IF date_col_found' = "none" THEN <<>>
                       ELSE [r \in bulk_activity_df.rows |-> ToDatetimeUtc(r)]
    /\ UNCHANGED <<bulk_activity_df, date_range, filtered_activity>>
    /\ UNCHANGED <<selectVars, normVars, joinVars, viewVars, classVars, cacheVars>>

\* lines 345-355: the filtered copy
FilterByDate ==
    /\ date_col_found # "unset"
    /\ filtered_activity = NotFiltered
    /\ filtered_activity' =
          FilterActivity(bulk_activity_df.rows, date_col_found, date_range,
                         parsed_dates)
    /\ UNCHANGED <<bulk_activity_df, date_col_found, date_range, parsed_dates>>
    /\ UNCHANGED <<selectVars, normVars, joinVars, viewVars, classVars, cacheVars>>

---------------------------------------------------------------------------
(* st.cache_data around the load functions, and the data store              *)

Acme == <<"A","c">>
OBrien == <<"O","'","B">>

\* the activity table: account name and customer identifier of each row
combined_datastore ==
    { [account_name |-> Acme, customer_id |-> H_CIT \o A1],
      [account_name |-> Acme, customer_id |-> None],
      [account_name |-> OBrien, customer_id |-> A1] }

\* lines 31-49: the account names with their activity counts
load_account_list(up) ==
    IF ~up THEN [df |-> {}, error |-> TRUE]
    ELSE [df |-> {[account_name |-> n,
                   activity_count |-> Cardinality(
                       {r \in combined_datastore : r.account_name = n})] :
                  n \in {r.account_name : r \in combined_datastore}},
          error |-> FALSE]

\* lines 52-67: WHERE "Account Name" = '{account_name}'
load_account_data(account_name, up) ==
    IF ~up THEN [df |-> {}, error |-> TRUE]
    ELSE [df |-> {r \in combined_datastore :
                    r.account_name = SqlLiteralValue(SqlEscape(account_name))},
          error |-> FALSE]

\* lines 109-128: WHERE "Account Name" IN ('{names_str}')
load_bulk_account_data(account_names, up) ==
    IF account_names = {} THEN [df |-> {}, error |-> FALSE]
    ELSE IF ~up THEN [df |-> {}, error |-> TRUE]
    ELSE [df |-> {r \in combined_datastore :
                    \E n \in account_names :
                        r.account_name = SqlLiteralValue(SqlEscape(n))},
          error |-> FALSE]

CachedFunctions == {"load_account_list", "load_account_data",
                    "load_account_firmographics", "load_account_contacts",
                    "load_bulk_account_data"}

\* the arguments the functions are called with
ArgsOf(fn) ==
    CASE fn = "load_account_list" -> {<<>>}
      [] fn = "load_account_data" -> {Acme, OBrien}
      [] fn = "load_account_firmographics" -> {{A1}}
      [] fn = "load_account_contacts" -> {{}, {H_CIT \o A1}}
      [] fn = "load_bulk_account_data" -> {{Acme, OBrien}}

\* the decorated function's own body
Body(fn, arg, up) ==
    CASE fn = "load_account_list" -> load_account_list(up)
      [] fn = "load_account_data" -> load_account_data(arg, up)
      [] fn = "load_account_firmographics" -> load_account_firmographics(arg, up)
      [] fn = "load_account_contacts" -> load_account_contacts(arg, up)
      [] fn = "load_bulk_account_data" -> load_bulk_account_data(arg, up)

\* a fresh process: nothing memoised; the store holds the rows above
CacheInit ==
    /\ store_up \in BOOLEAN
    /\ cache = [fn \in CachedFunctions |-> {}]
    /\ last_call = NoCall
    /\ shown = {}
    /\ firm_ids = {A1}
    /\ party_numbers = {A1, H_ \o A1}
    /\ cust_ids = Unset /\ contacts = Unset /\ firmographics = Unset
    /\ NormIdle /\ ViewIdle /\ ClassIdle /\ ExportIdle /\ SelectIdle

\* @st.cache_data (lines 30, 51, 69, 86, 108): a value memoised for the
\* arguments is returned without running the body; otherwise the body runs
\* and whatever it returns is memoised, the empty frame of its except
\* branch included.  Whether the st.error of a memoised run is shown again
\* is left open.
Call(fn, arg) ==
    /\ IF \E e \in cache[fn] : e.arg = arg
       THEN LET e == CHOOSE e \in cache[fn] : e.arg = arg
            IN  /\ last_call' = [fn |-> fn, arg |-> arg, up |-> store_up,
                                 df |-> e.df, hit |-> TRUE]
                /\ \E replay \in BOOLEAN :
                       shown' = IF e.error /\ replay THEN {fn} ELSE {}
                /\ UNCHANGED cache
       ELSE LET r == Body(fn, arg, store_up)
            IN  /\ last_call' = [fn |-> fn, arg |-> arg, up |-> store_up,
                                 df |-> r.df, hit |-> FALSE]
                /\ shown' = IF r.error THEN {fn} ELSE {}
                /\ cache' = [cache EXCEPT ![fn] =
                                @ \cup {[arg |-> arg, df |-> r.df,
                                         error |-> r.error]}]
    /\ UNCHANGED <<selectVars, store_up, joinVars, normVars, viewVars, classVars,
                   exportVars>>

\* some function is called with some argument
CallLoad == \E fn \in CachedFunctions : \E arg \in ArgsOf(fn) : Call(fn, arg)

\* the data store becomes unreachable
StoreFails ==
    /\ store_up
    /\ store_up' = FALSE
    /\ UNCHANGED <<selectVars, cache, last_call, shown, joinVars, normVars, viewVars,
                   classVars, exportVars>>

\* the data store becomes reachable again
StoreRecovers ==
    /\ ~store_up
    /\ store_up' = TRUE
    /\ UNCHANGED <<selectVars, cache, last_call, shown, joinVars, normVars, viewVars,
                   classVars, exportVars>>

---------------------------------------------------------------------------
(* The account selection of the deep dive                                  *)

MaxNameLen == 3
MaxAccounts == 2

\* characters of an account name
NameChars == { <<"A">>, <<" ">>, <<"(">>, <<")">> }

\* "Account Name" values of combined_datastore (not null, line 41)
AccountNames == Concats(NameChars, MaxNameLen)

\* activity_count values: COUNT(*) of a group
ActivityCounts == {7, 1234}

DigitChars == <<"0","1","2","3","4","5","6","7","8","9">>

\* the decimal digits of n
RECURSIVE Digits(_)
Digits(n) ==
    IF n < 10 THEN <<DigitChars[n + 1]>>
    ELSE Digits(n \div 10) \o <<DigitChars[(n % 10) + 1]>>

\* a comma before every group of three digits counted from the right
RECURSIVE GroupThousands(_)
GroupThousands(ds) ==
    IF Len(ds) <= 3 THEN ds
    ELSE GroupThousands(SubSeq(ds, 1, Len(ds) - 3)) \o <<",">>
         \o SubSeq(ds, Len(ds) - 2, Len(ds))

\* line 160: f"{x['Account Name']} ({x['activity_count']:,} activities)"
DisplayName(row) ==
    row.account_name \o <<" ", "(">> \o GroupThousands(Digits(row.activity_count))
    \o <<" ","a","c","t","i","v","i","t","i","e","s",")">>

\* str.split(sep)[0]: s up to the first occurrence of sep, all of s without
SplitFirst(s, sep) ==
    LET at == {i \in 1..(Len(s) - Len(sep) + 1) :
                  SubSeq(s, i, i + Len(sep) - 1) = sep}
    IN  IF at = {} THEN s
        ELSE SubSeq(s, 1, (CHOOSE i \in at : \A j \in at : i <= j) - 1)

\* line 168: account_choice.split(" (")[0]
SelectedAccount(choice) == SplitFirst(choice, <<" ", "(">>)

\* line 164: [""] + account_summary['display_name'].tolist()
Options(summary) == {<<>>} \cup {DisplayName(row) : row \in summary}

\* load_account_list has returned the accounts, one row for each name
\* (GROUP BY "Account Name"), and the script has not run yet
SelectInit ==
    /\ account_summary \in
          {t \in SubsetsUpTo([account_name : AccountNames,
                              activity_count : ActivityCounts], MaxAccounts) :
              \A a \in t : \A b \in t :
                  a.account_name = b.account_name => a = b}
    /\ account_choice = None
    /\ selected_account = None
    /\ queried_account = None
    /\ NormIdle /\ JoinIdle /\ ViewIdle /\ ClassIdle /\ ExportIdle /\ CacheIdle

\* lines 157-172: the script runs with some entry of the select box chosen:
\* selected_account is "" for the empty entry (or an empty frame), else the
\* label cut at its first " ("; load_account_data is called with it when it
\* is not empty
ChooseAccount ==
    /\ \E choice \in Options(account_summary) :
          /\ account_choice' = choice
          /\ selected_account' =
                IF account_summary # {} /\ choice # <<>>
                THEN SelectedAccount(choice) ELSE <<>>
    /\ queried_account' =
          IF selected_account' # <<>> THEN selected_account' ELSE None
    /\ UNCHANGED account_summary
    /\ UNCHANGED <<normVars, joinVars, viewVars, classVars, exportVars,
                   cacheVars>>

---------------------------------------------------------------------------
(* Specifications *)

NormNext == NormalizeId \/ NormalizeAgain

SpecNorm == NormInit /\ [][NormNext]_vars

JoinNext == LoadFirmographics \/ LoadContacts

SpecJoin == JoinInit /\ [][JoinNext]_vars

ViewNext == ResolveNames \/ Timeline \/ Firmographics \/ Contacts

SpecView == ViewInit /\ [][ViewNext]_vars

ClassNext == BuildEngagedNames \/ ClassifyContact

SpecClass == ClassInit /\ [][ClassNext]_vars

ExportNext == FindDateColumn \/ FilterByDate

SpecExport == ExportInit /\ [][ExportNext]_vars

CacheNext == CallLoad \/ StoreFails \/ StoreRecovers

SpecCache == CacheInit /\ [][CacheNext]_vars

SelectNext == ChooseAccount

SpecSelect == SelectInit /\ [][SelectNext]_vars

---------------------------------------------------------------------------
(* The claims *)

\* C1: once a contact is classified, status_color is purple iff the affinity
\* code is non-null and, trimmed, neither empty nor "nan"; otherwise yellow
\* iff is_engaged; otherwise red.  An empty or blank code counts as absent.
C1_StatusColorPriority ==
    status_color # "none" =>
        status_color =
            IF /\ sales_affinity_code # None
               /\ Strip(sales_affinity_code) # <<>>
               /\ Strip(sales_affinity_code) # nan
            THEN "purple"
            ELSE IF is_engaged THEN "yellow" ELSE "red"

\* C2: normalising an identifier that is already normalised changes nothing:
\* normalize(normalize(x)) = normalize(x).
C2_NormalizeIdempotent ==
    clean_again # None => clean_again = clean_id

\* the prefix p taken off s when s starts with it, once
StripPrefix(s, p) ==
    IF Len(s) >= Len(p) /\ SubSeq(s, 1, Len(p)) = p
    THEN SubSeq(s, Len(p) + 1, Len(s))
    ELSE s

\* C3: the normalised identifier is the trimmed, upper-cased identifier with
\* "H-CIT-", then "H-", then "CIT-" taken off its front only, each once; an
\* "H-" or "CIT-" further inside the identifier is kept.
C3_PrefixOnly ==
    clean_id # None =>
        clean_id =
            StripPrefix(StripPrefix(StripPrefix(Upper(Strip(id)), H_CIT), H_),
                        CIT_)

\* C4: with the store reachable, a contact row is returned iff its join key,
\* normalised by the function applied to the requested identifiers, equals
\* the normalisation of one of them.
C4_SameNormalizationBothSides ==
    (contacts # Unset /\ store_up) =>
        \A k \in party_numbers \ {None} :
            k \in contacts <=>
                \E c \in cust_ids : Normalize(k) = Normalize(c)

\* C5: when a name column is not resolved, the view reports an error and
\* stops: the firmographics and contacts sections are never rendered.
C5_UnresolvedNamesAbort ==
    (pc \in {"firmographics", "contacts", "done"}
        /\ (f_col = None \/ l_col = None)) =>
        /\ errors # {}
        /\ "Firmographics" \notin rendered
        /\ "Contacts" \notin rendered

\* C6: with a date column and a two-date range [start, end], a row is in the
\* filtered activity iff its date parsed and its UTC instant lies between
\* the first minute of start and the last minute of end; a row with a
\* missing or unparsable date is left out.
C6_DateFilterInclusive ==
    (filtered_activity # NotFiltered /\ date_col_found # "none"
        /\ Len(date_range) = 2) =>
        \A r \in bulk_activity_df.rows :
            r \in filtered_activity <=>
                /\ r.kind = "ts"
                /\ date_range[1] * MinutesPerDay
                      <= r.day * MinutesPerDay + r.minute - r.offset
                /\ r.day * MinutesPerDay + r.minute - r.offset
                      < (date_range[2] + 1) * MinutesPerDay

\* a row stamped in the last minute of the end date (UTC) is kept, and a row
\* without a usable date is dropped
C6_Witness ==
    /\ filtered_activity # NotFiltered /\ date_col_found # "none"
    /\ Len(date_range) = 2
    /\ \E r \in filtered_activity :
          /\ r.day = date_range[2] /\ r.minute = MinutesPerDay - 1
          /\ r.offset = 0
    /\ \E r \in bulk_activity_df.rows \ filtered_activity : r.kind # "ts"

\* C7: a classified contact is engaged iff its display name has at least
\* two whitespace-separated tokens and some named activity row (first name
\* neither null nor empty, name columns resolved) has, trimmed and
\* lower-cased, the contact's first token as first name and its last token
\* as last name, both lower-cased; middle tokens play no part.
C7_IsEngaged ==
    status_color # "none" =>
        LET tokens == IF party_unique_name = None THEN <<>>
                      ELSE Split(party_unique_name)
        IN  is_engaged <=>
                /\ Len(tokens) >= 2
                /\ names_resolved
                /\ \E r \in activity :
                      /\ r.first # None /\ r.first # <<>>
                      /\ Lower(Strip(r.first)) = Lower(tokens[1])
                      /\ Lower(Strip(IF r.last = None THEN <<>> ELSE r.last))
                            = Lower(tokens[Len(tokens)])

\* a contact with a middle token and other letter case than the activity
\* row is found engaged
C7_Witness ==
    /\ status_color # "none"
    /\ is_engaged
    /\ Len(Split(party_unique_name)) = 3
    /\ \A r \in activity : r.first # None => r.first # Split(party_unique_name)[1]

\* the candidate of lowest index that some column equals when letter case
\* is ignored decides the result, which is such a column; None without one
ResolvedBy(result, possible) ==
    LET hits == {i \in DOMAIN possible :
                    \E c \in Elems(columns) : Lower(c) = Lower(possible[i])}
    IN  IF hits = {} THEN result = None
        ELSE LET first == CHOOSE i \in hits : \A j \in hits : i <= j
             IN  /\ result \in Elems(columns)
                 /\ Lower(result) = Lower(possible[first])

\* C8: right after the resolution, f_col and l_col are the columns matched,
\* letter case ignored, by the first candidate of possible_first and of
\* possible_last that matches any column, and None when no candidate does.
C8_ResolveColumn ==
    pc = "timeline" =>
        /\ ResolvedBy(f_col, possible_first)
        /\ ResolvedBy(l_col, possible_last)

\* "LASTNAME" is resolved, by letter case ignored, ahead of "Last"
C8_Witness ==
    /\ pc = "timeline"
    /\ l_col = <<"L","A","S","T","N","A","M","E">>
    /\ <<"L","a","s","t">> \in Elems(columns)

\* C9: with the store reachable, a firmographic record is returned iff its
\* identifier, normalised, equals the normalisation of one of the account's
\* distinct non-null activity identifiers.
C9_FirmographicsNormalized ==
    (firmographics # Unset /\ store_up) =>
        \A f \in firm_ids \ {None} :
            f \in firmographics <=>
                \E c \in cust_ids : Normalize(f) = Normalize(c)

\* C10: a call made while the store is reachable returns the store's rows
\* for its argument, whatever happened to earlier calls.
C10_FailureNotMemoised ==
    (last_call.fn # "none" /\ last_call.up) =>
        last_call.df = Body(last_call.fn, last_call.arg, TRUE).df

\* C11: choosing an account's entry makes the dashboard query the activity
\* rows of exactly that account name: the name recovered from the label
\* "{name} ({count} activities)" is the account's name, also for a name
\* that itself contains " (".
C11_SelectionQueriesAccount ==
    \A row \in account_summary :
        account_choice = DisplayName(row) =>
            queried_account = row.account_name

===========================================================================
